---- MODULE Spec2Model ----
(***************************************************************************)
(* Model of kira's "new" command (internal/commands/new.go,                *)
(* createWorkItem) together with the collaborators it calls: the ID        *)
(* allocator (validation.GetNextID), the template engine                   *)
(* (templates.GetTemplateInputs / templates.ProcessTemplate), the item     *)
(* validator and the linter (lintWorkItems).                               *)
(*                                                                         *)
(* Strings are sequences of one-character strings, so that formatting,     *)
(* parsing, trimming and kebab-casing are computed character by character. *)
(***************************************************************************)
EXTENDS Integers, Sequences, FiniteSets, TLC

VARIABLES cfg, tree, dirs, last, log, pending

vars == <<cfg, tree, dirs, last, log, pending>>

(***************************************************************************)
(* Bounds                                                                  *)
(***************************************************************************)
\* largest number of item files the tree may hold
MaxItems == 2
\* number of concurrently running invocations in SpecConc
NumProcs == 2

Procs == 1..NumProcs

(***************************************************************************)
(* String literals                                                         *)
(***************************************************************************)
EmptyStr == <<>>
prd == <<"p", "r", "d">>
todo == <<"t", "o", "d", "o">>
draft == <<"d", "r", "a", "f", "t">>
icebox == <<"i", "c", "e", "b", "o", "x">>
FixBug == <<"F", "i", "x", " ", "b", "u", "g">>
AddApi == <<"A", "d", "d", "_", "A", "P", "I">>
SomeText == <<"w", "h", "y">>
OtherText == <<"h", "o", "w">>
TodoFolder == <<"1", "_", "t", "o", "d", "o">>
PrdTemplatePath == <<"p", "r", "d", ".", "m", "d">>
Date20240101 == <<"2", "0", "2", "4", "-", "0", "1", "-", "0", "1">>
BadDate == <<"1", "3", "/", "4", "0", "/", "9", "9", "9", "9">>
DateLayout == <<"2", "0", "0", "6", "-", "0", "1", "-", "0", "2">>
Seven == <<"0", "0", "7">>
Low == <<"l", "o", "w">>
High == <<"h", "i", "g", "h">>

(***************************************************************************)
(* Go standard-library functions used by the command                       *)
(***************************************************************************)
DigitChars == <<"0", "1", "2", "3", "4", "5", "6", "7", "8", "9">>
UpperChars == <<"A", "B", "C", "D", "E", "F", "G", "H", "I", "J", "K", "L", "M",
                "N", "O", "P", "Q", "R", "S", "T", "U", "V", "W", "X", "Y", "Z">>
LowerChars == <<"a", "b", "c", "d", "e", "f", "g", "h", "i", "j", "k", "l", "m",
                "n", "o", "p", "q", "r", "s", "t", "u", "v", "w", "x", "y", "z">>

IsDigit(c) == \E i \in 1..10 : DigitChars[i] = c

DigitVal(c) == (CHOOSE i \in 1..10 : DigitChars[i] = c) - 1

IsDigits(s) == Len(s) > 0 /\ \A i \in 1..Len(s) : IsDigit(s[i])

RECURSIVE DigitsVal(_)
DigitsVal(s) ==
  IF Len(s) = 0 THEN 0
  ELSE 10 * DigitsVal(SubSeq(s, 1, Len(s) - 1)) + DigitVal(s[Len(s)])

\* strconv.Atoi: an optional sign followed by one or more decimal digits
Atoi(s) ==
  LET signed == Len(s) > 0 /\ s[1] \in {"+", "-"}
      digits == IF signed THEN Tail(s) ELSE s
  IN  IF IsDigits(digits)
      THEN [ok |-> TRUE,
            val |-> IF signed /\ s[1] = "-" THEN 0 - DigitsVal(digits) ELSE DigitsVal(digits)]
      ELSE [ok |-> FALSE, val |-> 0]

RECURSIVE DecDigits(_)
DecDigits(n) ==
  IF n < 10 THEN <<DigitChars[n + 1]>>
  ELSE DecDigits(n \div 10) \o <<DigitChars[(n % 10) + 1]>>

RECURSIVE ZeroPad(_, _)
ZeroPad(s, width) == IF Len(s) >= width THEN s ELSE ZeroPad(<<"0">> \o s, width)

LowerChar(c) ==
  IF \E i \in 1..26 : UpperChars[i] = c
  THEN LowerChars[CHOOSE i \in 1..26 : UpperChars[i] = c]
  ELSE c

\* strings.ToLower
ToLower(s) == [i \in 1..Len(s) |-> LowerChar(s[i])]

\* strings.ReplaceAll for a one-character old and new
ReplaceAll(s, old, new) == [i \in 1..Len(s) |-> IF s[i] = old THEN new ELSE s[i]]

RECURSIVE TrimLeft(_)
TrimLeft(s) == IF Len(s) > 0 /\ s[1] = " " THEN TrimLeft(Tail(s)) ELSE s

RECURSIVE TrimRight(_)
TrimRight(s) ==
  IF Len(s) > 0 /\ s[Len(s)] = " " THEN TrimRight(SubSeq(s, 1, Len(s) - 1)) ELSE s

\* strings.TrimSpace
TrimSpace(s) == TrimRight(TrimLeft(s))

IsLeap(y) == (y % 4 = 0 /\ y % 100 # 0) \/ y % 400 = 0

DaysIn(y, m) ==
  IF m = 2 THEN (IF IsLeap(y) THEN 29 ELSE 28)
  ELSE IF m \in {4, 6, 9, 11} THEN 30 ELSE 31

\* time.Parse(layout, s) succeeds; the layout in use is year-month-day
TimeParse(layout, s) ==
  /\ layout = DateLayout
  /\ Len(s) = 10
  /\ s[5] = "-" /\ s[8] = "-"
  /\ \A i \in {1, 2, 3, 4, 6, 7, 9, 10} : IsDigit(s[i])
  /\ LET y == DigitsVal(SubSeq(s, 1, 4))
         m == DigitsVal(SubSeq(s, 6, 7))
         d == DigitsVal(SubSeq(s, 9, 10))
     IN  m \in 1..12 /\ d \in 1..DaysIn(y, m)

\* time.Time.Format("2006-01-02")
TimeFormat(t) ==
  ZeroPad(DecDigits(t.year), 4) \o <<"-">> \o ZeroPad(DecDigits(t.month), 2)
    \o <<"-">> \o ZeroPad(DecDigits(t.day), 2)

\* time.Now()
Now == [year |-> 2024, month |-> 1, day |-> 1]

(***************************************************************************)
(* Config (the collaborator's value, read-only during one invocation)      *)
(***************************************************************************)
EmptyMap == [k \in {} |-> EmptyStr]

\* todo has a folder, draft is mapped to an empty folder; the default status
\* is either configured (todo) or absent from the mapping (icebox)
Configs ==
  {[StatusFolders |-> (todo :> TodoFolder) @@ (draft :> EmptyStr),
    Templates |-> (prd :> PrdTemplatePath),
    DefaultStatus |-> d] : d \in {todo, icebox}}

(***************************************************************************)
(* Errors: the message's leading text and the values formatted into it     *)
(***************************************************************************)
NoErr == [kind |-> "nil", a |-> EmptyStr, b |-> EmptyStr, valid |-> {}]

Errorf(kind, a, b, valid) == [kind |-> kind, a |-> a, b |-> b, valid |-> valid]

Failed(e) == e.kind # "nil"

(***************************************************************************)
(* Positional arguments, lines 50-89.  Go's args[i] is args[i + 1] here.   *)
(***************************************************************************)
\* variant: a status is recognised in the second position only
ParseArgsSecondOnly(c, args) ==
  LET isStatus == Len(args) > 1 /\ args[2] \in DOMAIN c.StatusFolders
  IN  [template |-> IF Len(args) > 0 THEN args[1] ELSE EmptyStr,
       title |-> IF Len(args) > 1 /\ ~isStatus THEN args[2]
                 ELSE IF Len(args) > 2 THEN args[3] ELSE EmptyStr,
       status |-> IF isStatus THEN args[2] ELSE EmptyStr,
       description |-> IF Len(args) > 3 THEN args[4] ELSE EmptyStr,
       err |-> NoErr]

ParseArgs(c, args) ==
  LET statusSet == DOMAIN c.StatusFolders
      template == IF Len(args) > 0 THEN args[1] ELSE EmptyStr
      status1 == IF Len(args) > 1 /\ args[2] \in statusSet THEN args[2] ELSE EmptyStr
      title1 == IF Len(args) > 1 /\ args[2] \notin statusSet THEN args[2] ELSE EmptyStr
      neither == /\ Len(args) > 2
                 /\ status1 = EmptyStr
                 /\ args[3] \notin statusSet
                 /\ title1 # EmptyStr
      status2 == IF Len(args) > 2 /\ status1 = EmptyStr /\ args[3] \in statusSet
                 THEN args[3] ELSE status1
      title2 == IF /\ Len(args) > 2
                   /\ title1 = EmptyStr
                   /\ (status1 # EmptyStr \/ args[3] \notin statusSet)
                THEN args[3] ELSE title1
  IN  [template |-> template,
       title |-> IF neither THEN title1 ELSE title2,
       status |-> IF neither THEN status1 ELSE status2,
       description |-> IF ~neither /\ Len(args) > 3 THEN args[4] ELSE EmptyStr,
       err |-> IF neither
               THEN Errorf("invalid status: neither", args[2], args[3], statusSet)
               ELSE NoErr]

(***************************************************************************)
(* Prompts: each reads one line from the terminal                          *)
(***************************************************************************)
Value(v) == [err |-> NoErr, value |-> v]

Fail(e) == [err |-> e, value |-> EmptyStr]

\* the templates in some enumeration order of the map
TemplateList(c) ==
  CHOOSE seq \in [1..Cardinality(DOMAIN c.Templates) -> DOMAIN c.Templates] :
    \A k \in DOMAIN c.Templates : \E i \in DOMAIN seq : seq[i] = k

selectTemplate(c, line) ==
  LET templates == TemplateList(c)
      choice == Atoi(TrimSpace(line))
  IN  IF ~choice.ok \/ choice.val < 1 \/ choice.val > Len(templates)
      THEN Fail(Errorf("invalid template selection", EmptyStr, EmptyStr, {}))
      ELSE Value(templates[choice.val])

promptString(line) == Value(TrimSpace(line))

promptStringOptions(line, options) ==
  LET choice == Atoi(TrimSpace(line))
  IN  IF ~choice.ok \/ choice.val < 1 \/ choice.val > Len(options)
      THEN Fail(Errorf("invalid option selection", EmptyStr, EmptyStr, {}))
      ELSE Value(options[choice.val])

promptNumber(line) ==
  IF ~Atoi(TrimSpace(line)).ok
  THEN Fail(Errorf("invalid number", TrimSpace(line), EmptyStr, {}))
  ELSE Value(TrimSpace(line))

promptDateTime(line, format) ==
  IF ~TimeParse(format, TrimSpace(line))
  THEN Fail(Errorf("invalid date format", TrimSpace(line), EmptyStr, {}))
  ELSE Value(TrimSpace(line))

promptForInput(input, line) ==
  IF input.Type = "string"
  THEN (IF Len(input.Options) > 0
        THEN promptStringOptions(line, input.Options)
        ELSE promptString(line))
  ELSE IF input.Type = "number" THEN promptNumber(line)
  ELSE IF input.Type = "datetime" THEN promptDateTime(line, input.DateFormat)
  ELSE promptString(line)

kebabCase(s) == ReplaceAll(ReplaceAll(ToLower(s), " ", "-"), "_", "-")

(***************************************************************************)
(* The item tree: a set of files, at most one per path (folder, name).     *)
(* A file's content is its front matter; the markdown body and the extra   *)
(* front-matter fields are read by no operation and are left out.          *)
(***************************************************************************)
EmptyContent ==
  [id |-> EmptyStr, title |-> EmptyStr, status |-> EmptyStr, kind |-> EmptyStr,
   created |-> EmptyStr]

NoFile == [folder |-> EmptyStr, name |-> EmptyStr, content |-> EmptyContent]

\* variant: the write is refused when a file already carries the item's id
WriteFileExclusive(t, f) ==
  IF \E g \in t : g.content.id = f.content.id THEN t ELSE t \cup {f}

\* os.WriteFile: creates the file or replaces the one at the same path
WriteFile(t, f) == {g \in t : g.folder # f.folder \/ g.name # f.name} \cup {f}

\* os.MkdirAll
MkdirAll(d, folder) == d \cup {folder}

(***************************************************************************)
(* ID allocator                                                            *)
(***************************************************************************)
IDWidth == 3

\* position of the first hyphen of a file name, 0 when there is none
FirstHyphen(name) ==
  IF \E i \in 1..Len(name) : name[i] = "-"
  THEN CHOOSE i \in 1..Len(name) : name[i] = "-" /\ \A j \in 1..(i - 1) : name[j] # "-"
  ELSE 0

\* the leading numeric portion of a file name that follows the convention
LeadingID(name) == SubSeq(name, 1, FirstHyphen(name) - 1)

HasLeadingID(name) == FirstHyphen(name) > 1 /\ IsDigits(LeadingID(name))

SetMax(S) == CHOOSE x \in S : \A y \in S : y <= x

GetNextID(t) ==
  LET named == {f \in t : HasLeadingID(f.name)}
      found == {DigitsVal(LeadingID(f.name)) : f \in named}
      width == SetMax({IDWidth} \cup {Len(LeadingID(f.name)) : f \in named})
  IN  ZeroPad(DecDigits(SetMax(found \cup {0}) + 1), width)

(***************************************************************************)
(* Template engine                                                         *)
(***************************************************************************)
Input(name, type, options, format) ==
  [Name |-> name, Type |-> type, Options |-> options, DateFormat |-> format]

\* the inputs the prd template declares, in order
PrdInputs ==
  << Input("id", "number", <<>>, EmptyStr),
     Input("title", "string", <<>>, EmptyStr),
     Input("status", "string", <<>>, EmptyStr),
     Input("created", "datetime", <<>>, DateLayout),
     Input("description", "string", <<>>, EmptyStr),
     Input("priority", "string", <<Low, High>>, EmptyStr),
     Input("estimate", "number", <<>>, EmptyStr),
     Input("due", "datetime", <<>>, DateLayout) >>

\* fails when the template file cannot be read
GetTemplateInputs(c, template) ==
  IF template \in DOMAIN c.Templates
  THEN [err |-> NoErr, inputs |-> PrdInputs]
  ELSE [err |-> Errorf("failed to get template inputs", template, EmptyStr, {}),
        inputs |-> <<>>]

\* a placeholder's substitution: the supplied value, or the empty string
Substitute(inputs, name) == IF name \in DOMAIN inputs THEN inputs[name] ELSE EmptyStr

\* the front matter of the prd template: id, title, status and created are
\* placeholders, kind is the template's own literal
ProcessTemplate(c, template, inputs) ==
  IF template \in DOMAIN c.Templates
  THEN [err |-> NoErr,
        content |-> [id |-> Substitute(inputs, "id"),
                     title |-> Substitute(inputs, "title"),
                     status |-> Substitute(inputs, "status"),
                     kind |-> template,
                     created |-> Substitute(inputs, "created")]]
  ELSE [err |-> Errorf("failed to process template", template, EmptyStr, {}),
        content |-> EmptyContent]

(***************************************************************************)
(* Item validator and linter                                               *)
(***************************************************************************)
Validate(c, content) ==
  (IF content.status \in DOMAIN c.StatusFolders THEN {} ELSE {"InvalidStatus"})
    \cup (IF content.kind \in DOMAIN c.Templates THEN {} ELSE {"InvalidKind"})
    \cup (IF TimeParse(DateLayout, content.created) THEN {} ELSE {"InvalidCreated"})
    \cup (IF content.id # EmptyStr THEN {} ELSE {"MissingID"})
    \cup (IF content.title # EmptyStr THEN {} ELSE {"MissingTitle"})

\* the convention <id>-<title>.<kind>.md, as far as the walk looks at it
IsItemName(name) ==
  /\ HasLeadingID(name)
  /\ Len(name) > 3
  /\ SubSeq(name, Len(name) - 2, Len(name)) = <<".", "m", "d">>

\* the (path, issues) pairs of the items with at least one issue
LintReport(c, t) ==
  {[folder |-> f.folder, name |-> f.name, issues |-> Validate(c, f.content)] :
     f \in {g \in t : /\ \E s \in DOMAIN c.StatusFolders : c.StatusFolders[s] = g.folder
                      /\ IsItemName(g.name)
                      /\ Validate(c, g.content) # {}}}

\* variant: only an invalid status makes the lint fail
lintWorkItemsStatusOnly(c, t) ==
  IF \E e \in LintReport(c, t) : "InvalidStatus" \in e.issues
  THEN [kind |-> "validation failed", report |-> LintReport(c, t)]
  ELSE [kind |-> "nil", report |-> {}]

lintWorkItems(c, t) ==
  IF LintReport(c, t) # {}
  THEN [kind |-> "validation failed", report |-> LintReport(c, t)]
  ELSE [kind |-> "nil", report |-> {}]

(***************************************************************************)
(* createWorkItem, lines 49-185: everything before the file system is      *)
(* written.  The record r holds the function's locals and how far it got   *)
(* (stage names the step that returned).                                   *)
(***************************************************************************)
Return(r, stage, err) == [r EXCEPT !.stage = stage, !.err = err]

\* variant: the computed fields are written after the supplied values
BuildInputsComputedLast(nextID, title, status, description, inputValues) ==
  ("id" :> nextID) @@ ("title" :> title) @@ ("status" :> status)
    @@ ("created" :> TimeFormat(Now))
    @@ (IF description # EmptyStr THEN ("description" :> description) ELSE EmptyMap)
    @@ inputValues

\* variant: the id field is filled from the title
BuildInputsIDFromTitle(nextID, title, status, description, inputValues) ==
  (IF description # EmptyStr /\ "description" \notin DOMAIN inputValues
   THEN inputValues @@ ("description" :> description) ELSE inputValues)
    @@ ("id" :> title) @@ ("title" :> title) @@ ("status" :> status)
    @@ ("created" :> TimeFormat(Now))

\* lines 136-152
BuildInputs(nextID, title, status, description, inputValues) ==
  LET computed == ("id" :> nextID) @@ ("title" :> title) @@ ("status" :> status)
                    @@ ("created" :> TimeFormat(Now))
      supplied == IF description # EmptyStr /\ "description" \notin DOMAIN inputValues
                  THEN inputValues @@ ("description" :> description)
                  ELSE inputValues
  IN  supplied @@ computed

\* lines 162-170, from the i-th declared input on
RECURSIVE PromptMissing(_, _, _, _)
PromptMissing(declared, i, inputs, stdin) ==
  IF i > Len(declared) THEN [err |-> NoErr, inputs |-> inputs]
  ELSE IF declared[i].Name \in DOMAIN inputs
       THEN PromptMissing(declared, i + 1, inputs, stdin)
       ELSE LET answer == promptForInput(declared[i], stdin[declared[i].Name])
            IN  IF Failed(answer.err) THEN [err |-> answer.err, inputs |-> inputs]
                ELSE PromptMissing(declared, i + 1,
                                   (declared[i].Name :> answer.value) @@ inputs, stdin)

\* variant: the title comes first in the file name
FilenameTitleFirst(nextID, title, template) ==
  kebabCase(title) \o <<"-">> \o nextID \o <<".">> \o template \o <<".", "m", "d">>

\* line 181
Filename(nextID, title, template) ==
  nextID \o <<"-">> \o kebabCase(title) \o <<".">> \o template \o <<".", "m", "d">>

\* variant: an empty folder is not rejected
RenderNoEmptyCheck(c, r) ==
  LET out == ProcessTemplate(c, r.template, r.inputs)
  IN  IF Failed(out.err) THEN Return(r, "render", out.err)
      ELSE IF r.status \notin DOMAIN c.StatusFolders
      THEN Return(r, "folder", Errorf("invalid status folder for status", r.status, EmptyStr, {}))
      ELSE [r EXCEPT !.stage = "write", !.write = TRUE,
                     !.file = [folder |-> c.StatusFolders[r.status],
                               name |-> Filename(r.nextID, r.title, r.template),
                               content |-> out.content]]

\* lines 173-185
Render(c, r) ==
  LET out == ProcessTemplate(c, r.template, r.inputs)
      filename == Filename(r.nextID, r.title, r.template)
      exists == r.status \in DOMAIN c.StatusFolders
      statusFolder == IF exists THEN c.StatusFolders[r.status] ELSE EmptyStr
  IN  IF Failed(out.err) THEN Return(r, "render", out.err)
      ELSE IF ~exists \/ statusFolder = EmptyStr
      THEN Return(r, "folder", Errorf("invalid status folder for status", r.status, EmptyStr, {}))
      ELSE [r EXCEPT !.stage = "write", !.write = TRUE,
                     !.file = [folder |-> statusFolder, name |-> filename,
                               content |-> out.content]]

\* lines 130-171
PrepareInputs(t, c, in, r) ==
  LET nextID == GetNextID(t)
      inputs == BuildInputs(nextID, r.title, r.status, r.description, in.inputValues)
      r1 == [r EXCEPT !.nextID = nextID, !.hasInputs = TRUE, !.inputs = inputs]
      declared == GetTemplateInputs(c, r.template)
      prompted == PromptMissing(declared.inputs, 1, inputs, in.stdin)
  IN  IF ~in.interactive THEN Render(c, r1)
      ELSE IF Failed(declared.err) THEN Return(r1, "prompt", declared.err)
      ELSE IF Failed(prompted.err)
      THEN Return([r1 EXCEPT !.inputs = prompted.inputs], "prompt", prompted.err)
      ELSE Render(c, [r1 EXCEPT !.inputs = prompted.inputs])

\* lines 121-128
ResolveStatus(t, c, in, r) ==
  LET status == IF r.status = EmptyStr THEN c.DefaultStatus ELSE r.status
      r1 == [r EXCEPT !.status = status, !.hasStatus = TRUE]
  IN  IF status \notin DOMAIN c.StatusFolders
      THEN Return(r1, "status", Errorf("invalid status", status, EmptyStr, DOMAIN c.StatusFolders))
      ELSE PrepareInputs(t, c, in, r1)

\* lines 108-119
ResolveTitle(t, c, in, r) ==
  LET answer == promptString(in.stdin["title"])
  IN  IF r.title # EmptyStr THEN ResolveStatus(t, c, in, r)
      ELSE IF ~in.interactive
      THEN Return(r, "title", Errorf("title is required", EmptyStr, EmptyStr, {}))
      ELSE IF Failed(answer.err) THEN Return(r, "title", answer.err)
      ELSE ResolveStatus(t, c, in, [r EXCEPT !.title = answer.value])

\* lines 91-106
ResolveTemplate(t, c, in, r) ==
  LET selected == selectTemplate(c, in.stdin["sel"])
      template == IF r.template = EmptyStr THEN selected.value ELSE r.template
      r1 == [r EXCEPT !.template = template]
  IN  IF r.template = EmptyStr /\ in.helpInputs
      THEN Return(r, "template", Errorf("template must be specified", EmptyStr, EmptyStr, {}))
      ELSE IF r.template = EmptyStr /\ Failed(selected.err)
      THEN Return(r, "template", selected.err)
      ELSE IF in.helpInputs
      THEN Return(r1, "help", GetTemplateInputs(c, template).err)
      ELSE ResolveTitle(t, c, in, r1)

\* lines 49-185
createWorkItem(t, c, in) ==
  LET parsed == ParseArgs(c, in.args)
      r == [stage |-> "args", err |-> parsed.err,
            template |-> parsed.template,
            parsedTitle |-> parsed.title, parsedStatus |-> parsed.status,
            title |-> parsed.title, status |-> parsed.status, hasStatus |-> FALSE,
            description |-> parsed.description,
            nextID |-> EmptyStr, hasInputs |-> FALSE, inputs |-> EmptyMap,
            write |-> FALSE, file |-> NoFile]
  IN  IF Failed(parsed.err) THEN r ELSE ResolveTemplate(t, c, in, r)

(***************************************************************************)
(* Command lines and terminal input the invocations are run with           *)
(***************************************************************************)
ArgVals == {EmptyStr, FixBug, AddApi, todo, draft}

PositionalArgs ==
  {<<>>, <<prd>>}
    \cup {<<prd, a>> : a \in ArgVals}
    \cup {<<prd, a, b>> : a \in ArgVals, b \in ArgVals}
    \cup {<<prd, a, b, d>> : a \in {todo, FixBug}, b \in {todo, FixBug},
                             d \in {EmptyStr, SomeText}}

\* the lines typed at each prompt; every answer is acceptable
GoodStdin ==
  [sel |-> <<"1">>, title |-> <<" ">> \o FixBug \o <<" ">>, description |-> SomeText,
   priority |-> <<"2">>, estimate |-> <<"5">>, due |-> Date20240101]

\* one answer of GoodStdin replaced by a blank or unacceptable line
Stdins ==
  {GoodStdin,
   [GoodStdin EXCEPT !.sel = <<"0">>],
   [GoodStdin EXCEPT !.title = <<" ">>],
   [GoodStdin EXCEPT !.priority = <<"9">>],
   [GoodStdin EXCEPT !.estimate = <<"5", "d">>],
   [GoodStdin EXCEPT !.due = BadDate]}

\* --input key=value
Overrides ==
  {("id" :> Seven), ("status" :> icebox), ("status" :> draft),
   ("description" :> OtherText), ("due" :> BadDate), ("due" :> Date20240101),
   ("estimate" :> <<"5", "d">>), ("priority" :> SomeText)}

Invocation(args, interactive, inputValues, helpInputs, stdin) ==
  [args |-> args, interactive |-> interactive, inputValues |-> inputValues,
   helpInputs |-> helpInputs, stdin |-> stdin]

Inputs ==
  {Invocation(a, FALSE, EmptyMap, FALSE, GoodStdin) : a \in PositionalArgs}
    \cup {Invocation(a, TRUE, EmptyMap, FALSE, s) : a \in PositionalArgs, s \in Stdins}
    \cup {Invocation(a, i, o, FALSE, GoodStdin) :
            a \in {<<prd, todo, FixBug>>, <<prd, todo, FixBug, SomeText>>},
            i \in BOOLEAN, o \in Overrides}
    \cup {Invocation(a, FALSE, EmptyMap, TRUE, GoodStdin) : a \in {<<>>, <<prd>>}}

ConcInputs ==
  {Invocation(a, FALSE, EmptyMap, FALSE, GoodStdin) :
     a \in {<<prd, todo, FixBug>>, <<prd, AddApi, todo>>, <<prd, todo, draft>>}}

(***************************************************************************)
(* State machine                                                           *)
(***************************************************************************)
NoCall == [op |-> "none"]

Idle == [active |-> FALSE]

Init ==
  /\ cfg \in Configs
  /\ tree = {}
  /\ dirs = {}
  /\ last = NoCall
  /\ log = <<>>
  /\ pending = [p \in Procs |-> Idle]

\* "kira new": createWorkItem run to completion, lines 49-202
CreateWorkItem(in) ==
  /\ last = NoCall
  /\ Cardinality(tree) < MaxItems
  /\ LET r == createWorkItem(tree, cfg, in)
     IN  /\ dirs' = IF r.write THEN MkdirAll(dirs, r.file.folder) ELSE dirs
         /\ tree' = IF r.write THEN WriteFile(tree, r.file) ELSE tree
         /\ log' = IF r.write THEN Append(log, r.nextID) ELSE log
         /\ last' = [op |-> "new", args |-> in.args, interactive |-> in.interactive,
                     inputValues |-> in.inputValues, helpInputs |-> in.helpInputs,
                     res |-> r]
  /\ UNCHANGED <<cfg, pending>>

\* "kira lint"
LintWorkItems ==
  /\ last = NoCall
  /\ last' = [op |-> "lint", err |-> lintWorkItems(cfg, tree)]
  /\ UNCHANGED <<cfg, tree, dirs, log, pending>>

\* the process exits and its locals are gone
Exit ==
  /\ last # NoCall
  /\ last' = NoCall
  /\ UNCHANGED <<cfg, tree, dirs, log, pending>>

Next ==
  \/ \E in \in Inputs : CreateWorkItem(in)
  \/ LintWorkItems
  \/ Exit

Spec == Init /\ [][Next]_vars

(***************************************************************************)
(* Interleaved invocations: an invocation's steps up to line 185 read the  *)
(* tree once (GetNextID); lines 187-198 write it later.                    *)
(***************************************************************************)
Active == {p \in Procs : pending[p].active}

Scan(p, in) ==
  /\ ~pending[p].active
  /\ Cardinality(tree) + Cardinality(Active) < MaxItems
  /\ LET r == createWorkItem(tree, cfg, in)
     IN  /\ r.write
         /\ pending' = [pending EXCEPT ![p] =
                          [active |-> TRUE, nextID |-> r.nextID, file |-> r.file]]
  /\ UNCHANGED <<cfg, tree, dirs, last, log>>

Write(p) ==
  /\ pending[p].active
  /\ dirs' = MkdirAll(dirs, pending[p].file.folder)
  /\ tree' = WriteFile(tree, pending[p].file)
  /\ log' = Append(log, pending[p].nextID)
  /\ pending' = [pending EXCEPT ![p] = Idle]
  /\ UNCHANGED <<cfg, last>>

NextConc ==
  \/ \E p \in Procs, in \in ConcInputs : Scan(p, in)
  \/ \E p \in Procs : Write(p)

SpecConc == Init /\ [][NextConc]_vars

(***************************************************************************)
(* Properties                                                              *)
(***************************************************************************)
New == last.op = "new"

StatusSet == DOMAIN cfg.StatusFolders

\* the input map was handed to the template engine
Rendered == New /\ last.res.stage \in {"render", "folder", "write"}

\* k as a zero-padded three-digit decimal
ExpectedID(k) ==
  IF k < 10 THEN <<"0", "0", DigitChars[k + 1]>> ELSE ZeroPad(DecDigits(k), 3)

\* C1: creations run one at a time from an empty tree are assigned "001",
\* "002", ... in creation order, and no two files of the tree share an
\* identifier.
C1_SequentialIDs ==
  /\ \A k \in 1..Len(log) : log[k] = ExpectedID(k)
  /\ \A f \in tree, g \in tree : f # g => LeadingID(f.name) # LeadingID(g.name)
  /\ {LeadingID(f.name) : f \in tree} = {log[k] : k \in 1..Len(log)}

C1_Witness ==
  /\ Len(log) >= 2
  /\ Cardinality(tree) = Len(log)
  /\ New /\ last.res.write /\ last.res.nextID = log[Len(log)]

\* C2: with a configured status s and a title t that is no status name, the
\* arguments (template, s, t) and (template, t, s) both resolve status s
\* and title t, and an item that is written goes to the folder mapped to s.
C2_OrderIndependent ==
  New /\ Len(last.args) >= 3 =>
    \A s \in StatusSet, t \in ArgVals \ StatusSet :
      (<<last.args[2], last.args[3]>> \in {<<s, t>>, <<t, s>>}) =>
        /\ last.res.parsedStatus = s
        /\ last.res.parsedTitle = t
        /\ ~Failed(ParseArgs(cfg, last.args).err)
        /\ last.res.hasStatus => last.res.status = s
        /\ last.res.hasStatus /\ t # EmptyStr => last.res.title = t
        /\ last.res.write =>
             /\ last.res.file.folder = cfg.StatusFolders[s]
             /\ last.res.file \in tree

C2_Witness ==
  /\ New /\ Len(last.args) = 3
  /\ last.args[2] = FixBug /\ last.args[3] = todo
  /\ last.res.write
  /\ last.res.file.folder = TodoFolder
  /\ last.res.file.content.title = FixBug

\* C3: when neither the second nor the third argument is a configured
\* status, createWorkItem fails with the error naming both values and the
\* valid statuses, and never goes on to create an item under the default
\* status.  Checked in the form a written file refutes: a call without
\* prompts whose second and third arguments are both no status either
\* returns that error or at least writes no item.
C3_NeitherIsStatus ==
  New /\ ~last.interactive /\ Len(last.args) >= 3
      /\ last.args[2] \notin StatusSet /\ last.args[3] \notin StatusSet =>
    \/ last.res.err = Errorf("invalid status: neither", last.args[2], last.args[3], StatusSet)
    \/ ~last.res.write

\* C4: lintWorkItems returns the "validation failed" error exactly when some
\* item of the tree has a validation issue, and no error otherwise (the
\* empty tree included).
C4_LintMarker ==
  last.op = "lint" =>
    /\ last.err.kind = "validation failed" <=> \E f \in tree : Validate(cfg, f.content) # {}
    /\ last.err.kind = "nil" <=> \A f \in tree : Validate(cfg, f.content) = {}

C4_Witness ==
  /\ last.op = "lint"
  /\ last.err.kind = "validation failed"
  /\ \E f \in tree : Validate(cfg, f.content) = {}
  /\ \E f \in tree : "MissingTitle" \in Validate(cfg, f.content)

\* C5: in the input map handed to rendering, a key with a supplied
\* key/value override has the override's value; otherwise description has
\* the non-empty fourth positional argument; otherwise id, title, status
\* and created have their computed values.
C5_Precedence ==
  Rendered =>
    /\ DOMAIN last.inputValues \cup {"id", "title", "status", "created"}
         \subseteq DOMAIN last.res.inputs
    /\ Len(last.args) > 3 /\ last.args[4] # EmptyStr => "description" \in DOMAIN last.res.inputs
    /\ \A k \in DOMAIN last.res.inputs :
         IF k \in DOMAIN last.inputValues
         THEN last.res.inputs[k] = last.inputValues[k]
         ELSE IF k = "description" /\ Len(last.args) > 3 /\ last.args[4] # EmptyStr
         THEN last.res.inputs[k] = last.args[4]
         ELSE /\ k = "id" => last.res.inputs[k] = last.res.nextID
              /\ k = "title" => last.res.inputs[k] = last.res.title
              /\ k = "status" => last.res.inputs[k] = last.res.status
              /\ k = "created" => last.res.inputs[k] = TimeFormat(Now)

C5_Witness ==
  /\ Rendered /\ last.res.write
  /\ Len(last.args) = 4 /\ last.args[4] = SomeText
  /\ last.inputValues = ("description" :> OtherText)
  /\ last.res.inputs["description"] = OtherText

NoFolder(status) ==
  status \notin StatusSet \/ cfg.StatusFolders[status] = EmptyStr

InvalidStatusErrors == {"invalid status", "invalid status folder for status"}

\* C6: a call in which no positional argument is a status resolves the
\* default status; and whenever the resolved status has no configured
\* folder (absent from the mapping or mapped to the empty folder) the call
\* fails with an invalid-status error and writes no file.
C6_NoFolderIsInvalidStatus ==
  New /\ last.res.hasStatus =>
    /\ last.res.parsedStatus = EmptyStr => last.res.status = cfg.DefaultStatus
    /\ NoFolder(last.res.status) =>
         /\ last.res.err.kind \in InvalidStatusErrors
         /\ ~last.res.write

\* C6 as amended: the call fails and writes no file; the error is the
\* invalid-status error unless prompting or rendering failed first, which
\* cannot happen for a status absent from the mapping.
C6_NoFolderFails ==
  New /\ last.res.hasStatus =>
    /\ last.res.parsedStatus = EmptyStr => last.res.status = cfg.DefaultStatus
    /\ last.res.parsedStatus # EmptyStr => last.res.status = last.res.parsedStatus
    /\ NoFolder(last.res.status) =>
         /\ Failed(last.res.err)
         /\ ~last.res.write
         /\ last.res.stage \in {"status", "prompt", "render", "folder"}
         /\ last.res.stage \in {"status", "folder"} <=>
              last.res.err.kind \in InvalidStatusErrors
         /\ last.res.status \notin StatusSet =>
              last.res.err = Errorf("invalid status", last.res.status, EmptyStr, StatusSet)

C6_Witness ==
  /\ New /\ last.res.hasStatus
  /\ last.res.parsedStatus = EmptyStr
  /\ last.res.title = FixBug
  /\ last.res.status = icebox
  /\ last.res.err.kind = "invalid status"

\* C8: every item createWorkItem writes has no validation issue, so a tree
\* grown from the empty tree by creations lints clean.
C8_CreatedItemsValid ==
  \A f \in tree : Validate(cfg, f.content) = {}

\* the value satisfies the declared input's constraint
Satisfies(input, value) ==
  /\ Len(input.Options) > 0 => \E i \in 1..Len(input.Options) : input.Options[i] = value
  /\ input.Type = "datetime" => TimeParse(input.DateFormat, value)
  /\ input.Type = "number" => Atoi(value).ok

\* C9: every value the input map holds for a declared input at render time
\* satisfies that input's constraint, whether prompted for or supplied as a
\* key/value override.
C9_InputsSatisfyConstraints ==
  Rendered =>
    \A i \in 1..Len(PrdInputs) :
      PrdInputs[i].Name \in DOMAIN last.res.inputs =>
        Satisfies(PrdInputs[i], last.res.inputs[PrdInputs[i].Name])

NotReserved ==
  \A p \in Procs :
    pending[p].active /\ (\A f \in tree : LeadingID(f.name) # pending[p].nextID) =>
      GetNextID(tree) = pending[p].nextID

\* an invocation that finishes has written its file under the ID it scanned
WriteLands ==
  \A p \in Procs :
    pending[p].active /\ ~pending'[p].active =>
      /\ pending[p].file \in tree'
      /\ LeadingID(pending[p].file.name) = pending[p].nextID

\* C7: nothing reserves a scanned ID or holds back the write: while an
\* invocation has scanned and not yet written, another scan gets the same
\* ID, and every write lands under the scanned ID; so a tree holding two
\* items with one identifier is reachable.
C7_NoReservation == [](NotReserved) /\ [][WriteLands]_vars

C7_Witness ==
  \E f \in tree, g \in tree : f # g /\ LeadingID(f.name) = LeadingID(g.name)

====
